---- MODULE Spec2Model ----
(***************************************************************************)
(* SchemaManager of sea-orm-migration (sea-orm-migration/src/manager.rs)    *)
(* as a state machine: one caller issues the manager's operations one at a *)
(* time and awaits each; an operation that talks to the Connection Handle   *)
(* takes two steps, the call up to its single .await and the continuation   *)
(* when the handle answers.                                                 *)
(*                                                                          *)
(* Values are strings throughout: a boolean cell is "true"/"false", unit is *)
(* "()", an error is the text of the DbErr.                                 *)
(***************************************************************************)
EXTENDS Naturals, FiniteSets, Sequences, TLC

\* How many times the handle may change its engine in one behaviour.
MaxSwitches == 1

----------------------------------------------------------------------------
\* Names used by the scenarios.
Tables == {"users", "posts"}
Columns == {"email"}
Indexes == {"idx_email"}

\* Cargo features of the crate that gate the per-engine code.
Features == {"sqlx-mysql", "sqlx-postgres", "sqlx-sqlite"}

\* Errors the connection can report for an execute or a query.
ConnErrs == {"Exec: rejected", "Conn: connection lost"}

VARIABLES
    features,     \* the features this build was compiled with
    truthful,     \* TRUE: a real engine that keeps a schema and answers truthfully;
                  \* FALSE: a faked connection that may answer anything
    conn,         \* SchemaManager.conn: the Connection Handle
    tables,       \* the engine's schema: tables,
    columns,      \*   <<table, column>> pairs,
    indexes,      \*   <<table, index>> pairs
    pc,           \* "idle", or the request the pending call awaits
    op,           \* the manager method of the current (or last) call
    arg,          \* its statement or probe arguments
    request,      \* the request in flight at the handle
    response,     \* what the handle answered to the last request
    result,       \* what the last call returned
    nExec,        \* executes the handle received from the current call
    nQuery,       \* queries (query_one) the handle received from the current call
    lastBackend,  \* history: last value get_database_backend returned since the
                  \*   engine last changed ("none" if none)
    switches,     \* history: engine changes so far
    seenFalse     \* history: scenario probes that have returned false

vars == <<features, truthful, conn, tables, columns, indexes, pc, op, arg,
          request, response, result, nExec, nQuery, lastBackend, switches,
          seenFalse>>

schema == <<tables, columns, indexes>>

----------------------------------------------------------------------------
\* Values

FeatureOf(backend) ==
    CASE backend = "MySql" -> "sqlx-mysql"
      [] backend = "Postgres" -> "sqlx-postgres"
      [] backend = "Sqlite" -> "sqlx-sqlite"

\* The DbBackend values a build can dispatch on. The MySql and Sqlite arms of
\* every match are unconditional; the Postgres arm itself is compiled only with
\* sqlx-postgres, so a build without that feature has no Postgres value to match.
DbBackend(fs) ==
    {"MySql", "Sqlite"} \cup (IF "sqlx-postgres" \in fs THEN {"Postgres"} ELSE {})

Stmt(kind, table, name) ==
    [kind |-> kind, dialect |-> "generic", table |-> table, name |-> name]

NoStmt == Stmt("none", "", "")

TableCreateStatements == {Stmt("TableCreate", t, "") : t \in Tables}
IndexCreateStatements == {Stmt("IndexCreate", t, i) : t \in Tables, i \in Indexes}
ForeignKeyCreateStatements == {Stmt("ForeignKeyCreate", "posts", "fk_user")}
TypeCreateStatements == {Stmt("TypeCreate", "", "mood")}
\* alter_table statements of the scenarios: add column `name` to `table`
TableAlterStatements == {Stmt("TableAlter", t, c) : t \in Tables, c \in Columns}
TableDropStatements == {Stmt("TableDrop", t, "") : t \in Tables}
\* rename `table` to `name`
TableRenameStatements ==
    {Stmt("TableRename", t, n) : t \in Tables, n \in Tables} \ {Stmt("TableRename", t, t) : t \in Tables}
TableTruncateStatements == {Stmt("TableTruncate", t, "") : t \in Tables}
IndexDropStatements == {Stmt("IndexDrop", t, i) : t \in Tables, i \in Indexes}
ForeignKeyDropStatements == {Stmt("ForeignKeyDrop", "posts", "fk_user")}
TypeAlterStatements == {Stmt("TypeAlter", "", "mood")}
TypeDropStatements == {Stmt("TypeDrop", "", "mood")}

MutationOps ==
    {"create_table", "create_index", "create_foreign_key", "create_type",
     "alter_table", "drop_table", "rename_table", "truncate_table",
     "drop_index", "drop_foreign_key", "alter_type", "drop_type"}

InspectionOps == {"has_table", "has_column", "has_index"}

Ok(v) == [tag |-> "Ok", val |-> v]
Err(e) == [tag |-> "Err", val |-> e]
Panic(msg) == [tag |-> "Panic", val |-> msg]
Pending == [tag |-> "Pending", val |-> ""]

NoRequest == [kind |-> "none", cmd |-> [backend |-> "none", stmt |-> NoStmt]]
NoResponse == [tag |-> "none", col |-> "", val |-> ""]
ExecResult(rows) == [tag |-> "ExecResult", col |-> "", val |-> rows]
Failed(e) == [tag |-> "Err", col |-> "", val |-> e]
NoRow == [tag |-> "NoRow", col |-> "", val |-> ""]
Row(c, v) == [tag |-> "Row", col |-> c, val |-> v]

----------------------------------------------------------------------------
\* The collaborators: statement rendering, probe builders, row decoding, and
\* the engine behind the Connection Handle.

\* DbBackend::build: the command for `stmt` in the dialect of `builder`.
build(builder, stmt) == [backend |-> builder, stmt |-> stmt]

\* SchemaProbe::has_table / has_column / has_index of the dialect `backend`: a
\* query whose one declared column is a boolean named after the probe kind.
SchemaProbe(backend, kind, table, name) ==
    [kind |-> kind, dialect |-> backend, table |-> table, name |-> name]

BoolCells == {"true", "false"}

\* QueryResult::try_get("", col): the boolean in column `col` of the row, or a
\* decode error when the row has no such column or the cell is not a boolean.
try_get(row, col) ==
    IF row.col = col /\ row.val \in BoolCells
    THEN Ok(row.val)
    ELSE Err("Type: cannot decode " \o col)

\* Does the engine accept the schema change `stmt` on its current schema?
Accepts(stmt) ==
    CASE stmt.kind = "TableCreate" -> stmt.table \notin tables
      [] stmt.kind = "TableDrop" -> stmt.table \in tables
      [] stmt.kind = "TableRename" -> stmt.table \in tables /\ stmt.name \notin tables
      [] stmt.kind = "TableTruncate" -> stmt.table \in tables
      [] stmt.kind = "TableAlter" ->
            stmt.table \in tables /\ <<stmt.table, stmt.name>> \notin columns
      [] stmt.kind = "IndexCreate" ->
            stmt.table \in tables /\ <<stmt.table, stmt.name>> \notin indexes
      [] stmt.kind = "IndexDrop" -> <<stmt.table, stmt.name>> \in indexes
      [] OTHER -> TRUE

Moved(pairs, from, to) ==
    {p \in pairs : p[1] # from} \cup {<<to, p[2]>> : p \in {q \in pairs : q[1] = from}}

\* The schema after the engine has executed `stmt`.
Apply(stmt) ==
    CASE stmt.kind = "TableCreate" -> <<tables \cup {stmt.table}, columns, indexes>>
      [] stmt.kind = "TableDrop" ->
            <<tables \ {stmt.table},
              {p \in columns : p[1] # stmt.table},
              {p \in indexes : p[1] # stmt.table}>>
      [] stmt.kind = "TableRename" ->
            <<(tables \ {stmt.table}) \cup {stmt.name},
              Moved(columns, stmt.table, stmt.name),
              Moved(indexes, stmt.table, stmt.name)>>
      [] stmt.kind = "TableAlter" ->
            <<tables, columns \cup {<<stmt.table, stmt.name>>}, indexes>>
      [] stmt.kind = "IndexCreate" ->
            <<tables, columns, indexes \cup {<<stmt.table, stmt.name>>}>>
      [] stmt.kind = "IndexDrop" ->
            <<tables, columns, indexes \ {<<stmt.table, stmt.name>>}>>
      [] OTHER -> <<tables, columns, indexes>>

\* The true answer to an existence probe.
Exists(probe) ==
    CASE probe.kind = "has_table" -> probe.table \in tables
      [] probe.kind = "has_column" -> <<probe.table, probe.name>> \in columns
      [] probe.kind = "has_index" -> <<probe.table, probe.name>> \in indexes

Cell(b) == IF b THEN "true" ELSE "false"

\* ConnectionTrait::execute: what the handle may answer to a command. A real
\* engine runs the whole statement or none of it, and only understands its own
\* dialect.
ExecuteOutcomes(cmd) ==
    IF truthful
    THEN (IF cmd.backend = conn.backend /\ Accepts(cmd.stmt)
          THEN {ExecResult("0")} ELSE {})
         \cup {Failed(e) : e \in ConnErrs}
    ELSE {ExecResult("0"), ExecResult("1")} \cup {Failed(e) : e \in ConnErrs}

\* ConnectionTrait::query_one: what the handle may answer to a query. A real
\* engine answers a well-formed probe with exactly one row holding the boolean.
QueryOneOutcomes(cmd) ==
    IF truthful
    THEN (IF cmd.backend = conn.backend /\ cmd.stmt.dialect = conn.backend
          THEN {Row(cmd.stmt.kind, Cell(Exists(cmd.stmt)))}
          ELSE {Failed("Exec: rejected")})
    ELSE {Failed(e) : e \in ConnErrs} \cup {NoRow}
         \cup {Row(c, v) : c \in InspectionOps, v \in BoolCells \cup {"42"}}

----------------------------------------------------------------------------
\* SchemaManager

\* SchemaManager::get_database_backend: the engine the handle reports now.
get_database_backend == conn.backend

\* A faulty builder: a renderer fixed in the code instead of read from the handle.
builder_hardcoded == "Sqlite"

\* `let builder = self.conn.get_database_backend();` the renderer of a call.
builder == get_database_backend

PanicStmt(msg) == [kind |-> "panic", dialect |-> msg, table |-> "", name |-> ""]

\* A faulty probe_stmt: no feature gate.
probe_stmt_ungated(kind, table, name) ==
    SchemaProbe(get_database_backend, kind, table, name)

\* `let stmt = match conn.get_database_backend() { ... }`: the probe of the
\* active engine's dialect, or a panic when that engine's feature is off.
probe_stmt(kind, table, name) ==
    LET backend == get_database_backend IN
    CASE backend = "MySql" ->
            IF "sqlx-mysql" \in features
            THEN SchemaProbe("MySql", kind, table, name)
            ELSE PanicStmt("mysql feature is off")
      [] backend = "Postgres" ->
            \* this arm exists only in a build with sqlx-postgres
            SchemaProbe("Postgres", kind, table, name)
      [] backend = "Sqlite" ->
            IF "sqlx-sqlite" \in features
            THEN SchemaProbe("Sqlite", kind, table, name)
            ELSE PanicStmt("sqlite feature is off")

\* A faulty map_unit: the error is replaced by one of the executor's own.
map_unit_custom(resp) ==
    IF resp.tag = "ExecResult" THEN Ok("()") ELSE Err("Custom: Failed to execute")

\* `.map(|_| ())` on the answer of execute.
map_unit(resp) ==
    IF resp.tag = "ExecResult" THEN Ok("()") ELSE Err(resp.val)

Noun(kind) ==
    CASE kind = "has_table" -> "table"
      [] kind = "has_column" -> "column"
      [] kind = "has_index" -> "index"

\* A faulty no_row: no row read as "does not exist".
no_row_as_absent(kind) == Ok("false")

\* `.ok_or_else(|| DbErr::Custom("Failed to check ... exists".to_owned()))`
no_row(kind) == Err("Custom: Failed to check " \o Noun(kind) \o " exists")

\* A faulty column_of: the column name of has_table copied into the other two.
column_of_has_table(kind) == "has_table"

\* The column `res.try_get("", ...)` reads.
column_of(kind) == kind

\* A faulty probe_result: existence decided by the presence of a row.
probe_result_by_row_presence(kind, resp) ==
    IF resp.tag = "Err" THEN Err(resp.val)
    ELSE IF resp.tag = "NoRow" THEN Ok("false")
    ELSE Ok("true")

\* `.await?.ok_or_else(..)?` then `res.try_get("", "has_..")`.
probe_result(kind, resp) ==
    IF resp.tag = "Err" THEN Err(resp.val)
    ELSE IF resp.tag = "NoRow" THEN no_row(kind)
    ELSE try_get(resp, column_of(kind))

\* The start of a call: the counters and the answer of the previous call go.
Begin(o, a) ==
    /\ pc = "idle"
    /\ op' = o
    /\ arg' = a
    /\ response' = NoResponse

Frame == UNCHANGED <<features, truthful, tables, columns, indexes, switches>>

\* A faulty exec_stmt: returns success without submitting anything.
exec_stmt_dry(stmt) ==
    /\ request' = NoRequest
    /\ pc' = "idle"
    /\ nExec' = 0
    /\ nQuery' = 0
    /\ result' = Ok("()")
    /\ UNCHANGED <<conn, lastBackend, seenFalse>>

\* exec_stmt up to `.await`: render with the active engine, submit one execute.
exec_stmt(stmt) ==
    /\ request' = [kind |-> "execute", cmd |-> build(builder, stmt)]
    /\ pc' = "execute"
    /\ nExec' = 1
    /\ nQuery' = 0
    /\ result' = Pending
    /\ UNCHANGED <<conn, lastBackend, seenFalse>>

\* exec_stmt after `.await`: the handle has answered the execute.
exec_stmt_resume ==
    /\ pc = "execute"
    /\ \E resp \in ExecuteOutcomes(request.cmd) :
          /\ response' = resp
          /\ result' = map_unit(resp)
          /\ LET after == IF truthful /\ resp.tag = "ExecResult"
                           THEN Apply(request.cmd.stmt)
                           ELSE <<tables, columns, indexes>>
             IN /\ tables' = after[1]
                /\ columns' = after[2]
                /\ indexes' = after[3]
    /\ pc' = "idle"
    /\ request' = NoRequest
    /\ UNCHANGED <<features, truthful, conn, op, arg, nExec, nQuery, lastBackend,
                   switches, seenFalse>>

\* Schema Creation
create_table ==
    \E stmt \in TableCreateStatements :
        Begin("create_table", stmt) /\ exec_stmt(stmt) /\ Frame

create_index ==
    \E stmt \in IndexCreateStatements :
        Begin("create_index", stmt) /\ exec_stmt(stmt) /\ Frame

create_foreign_key ==
    \E stmt \in ForeignKeyCreateStatements :
        Begin("create_foreign_key", stmt) /\ exec_stmt(stmt) /\ Frame

create_type ==
    \E stmt \in TypeCreateStatements :
        Begin("create_type", stmt) /\ exec_stmt(stmt) /\ Frame

\* Schema Mutation
alter_table ==
    \E stmt \in TableAlterStatements :
        Begin("alter_table", stmt) /\ exec_stmt(stmt) /\ Frame

drop_table ==
    \E stmt \in TableDropStatements :
        Begin("drop_table", stmt) /\ exec_stmt(stmt) /\ Frame

rename_table ==
    \E stmt \in TableRenameStatements :
        Begin("rename_table", stmt) /\ exec_stmt(stmt) /\ Frame

truncate_table ==
    \E stmt \in TableTruncateStatements :
        Begin("truncate_table", stmt) /\ exec_stmt(stmt) /\ Frame

drop_index ==
    \E stmt \in IndexDropStatements :
        Begin("drop_index", stmt) /\ exec_stmt(stmt) /\ Frame

drop_foreign_key ==
    \E stmt \in ForeignKeyDropStatements :
        Begin("drop_foreign_key", stmt) /\ exec_stmt(stmt) /\ Frame

alter_type ==
    \E stmt \in TypeAlterStatements :
        Begin("alter_type", stmt) /\ exec_stmt(stmt) /\ Frame

drop_type ==
    \E stmt \in TypeDropStatements :
        Begin("drop_type", stmt) /\ exec_stmt(stmt) /\ Frame

\* A faulty probe_call: the probe goes through execute.
probe_call_execute(kind, table, name) ==
    /\ request' = [kind |-> "execute",
                   cmd |-> build(builder, probe_stmt(kind, table, name))]
    /\ pc' = "execute"
    /\ nExec' = 1
    /\ nQuery' = 0
    /\ result' = Pending
    /\ UNCHANGED <<conn, lastBackend, seenFalse>>

\* Schema Inspection, up to `.await`: pick the probe of the active engine (or
\* panic), render it with the active engine, submit one query_one.
probe_call(kind, table, name) ==
    /\ LET stmt == probe_stmt(kind, table, name) IN
         IF stmt.kind = "panic"
         THEN /\ result' = Panic(stmt.dialect)
              /\ request' = NoRequest
              /\ pc' = "idle"
              /\ nQuery' = 0
         ELSE /\ result' = Pending
              /\ request' = [kind |-> "query_one", cmd |-> build(builder, stmt)]
              /\ pc' = "query_one"
              /\ nQuery' = 1
    /\ nExec' = 0
    /\ UNCHANGED <<conn, lastBackend, seenFalse>>

\* A faulty has_table: builds the has_column probe.
has_table_with_column_probe ==
    \E table \in Tables :
        /\ Begin("has_table", Stmt("has_table", table, ""))
        /\ probe_call("has_column", table, "")
        /\ Frame

\* has_table (SchemaManager::has_table hands its handle and table to it)
has_table ==
    \E table \in Tables :
        /\ Begin("has_table", Stmt("has_table", table, ""))
        /\ probe_call("has_table", table, "")
        /\ Frame

has_column ==
    \E table \in Tables, column \in Columns :
        /\ Begin("has_column", Stmt("has_column", table, column))
        /\ probe_call("has_column", table, column)
        /\ Frame

has_index ==
    \E table \in Tables, index \in Indexes :
        /\ Begin("has_index", Stmt("has_index", table, index))
        /\ probe_call("has_index", table, index)
        /\ Frame

\* The probes of the two scenarios, whose earlier `false` answers are remembered.
ScenarioProbes == {Stmt("has_table", "users", ""), Stmt("has_column", "users", "email")}

\* An inspection after `.await`: the handle has answered the query.
probe_resume ==
    /\ pc = "query_one"
    /\ \E resp \in QueryOneOutcomes(request.cmd) :
          /\ response' = resp
          /\ result' = probe_result(op, resp)
    /\ seenFalse' = IF truthful /\ result' = Ok("false") /\ arg \in ScenarioProbes
                    THEN seenFalse \cup {arg} ELSE seenFalse
    /\ pc' = "idle"
    /\ request' = NoRequest
    /\ UNCHANGED <<features, truthful, conn, tables, columns, indexes, op, arg,
                   nExec, nQuery, lastBackend, switches>>

\* A faulty engine_identity: asks the engine for its identity.
engine_identity_probing ==
    /\ Begin("get_database_backend", NoStmt)
    /\ request' = [kind |-> "query_one",
                   cmd |-> build(builder, Stmt("select_version", "", ""))]
    /\ pc' = "query_one"
    /\ nExec' = 0
    /\ nQuery' = 1
    /\ result' = Pending
    /\ UNCHANGED <<conn, lastBackend, seenFalse>>
    /\ Frame

\* SchemaManager::get_database_backend as a call of its own.
engine_identity ==
    /\ Begin("get_database_backend", NoStmt)
    /\ result' = Ok(get_database_backend)
    /\ lastBackend' = get_database_backend
    /\ nExec' = 0
    /\ nQuery' = 0
    /\ UNCHANGED <<pc, request, conn, seenFalse>>
    /\ Frame

\* SchemaManager::get_connection: a reference to the held handle.
get_connection ==
    /\ Begin("get_connection", NoStmt)
    /\ result' = Ok("&conn")
    /\ nExec' = 0
    /\ nQuery' = 0
    /\ UNCHANGED <<pc, request, conn, lastBackend, seenFalse>>
    /\ Frame

\* The environment: between two calls the handle comes to report another engine
\* (the hypothetical the design guards against). A real engine does not turn
\* into another one; a faked handle may report whatever it is told to.
HandleChangesEngine ==
    /\ pc = "idle"
    /\ ~truthful
    /\ switches < MaxSwitches
    /\ \E e \in DbBackend(features) \ {conn.backend} :
          conn' = [conn EXCEPT !.backend = e]
    /\ switches' = switches + 1
    /\ lastBackend' = "none"
    /\ UNCHANGED <<features, truthful, tables, columns, indexes, pc, op, arg,
                   request, response, result, nExec, nQuery, seenFalse>>

\* SchemaManager::new over a handle to a fresh schema.
Init ==
    /\ features \in SUBSET Features
    /\ truthful \in BOOLEAN
    /\ conn \in [backend : DbBackend(features), open : {TRUE}, txn : {"none"}]
    /\ tables = {}
    /\ columns = {}
    /\ indexes = {}
    /\ pc = "idle"
    /\ op = "new"
    /\ arg = NoStmt
    /\ request = NoRequest
    /\ response = NoResponse
    /\ result = Ok("self")
    /\ nExec = 0
    /\ nQuery = 0
    /\ lastBackend = "none"
    /\ switches = 0
    /\ seenFalse = {}

Next ==
    \/ create_table
    \/ create_index
    \/ create_foreign_key
    \/ create_type
    \/ alter_table
    \/ drop_table
    \/ rename_table
    \/ truncate_table
    \/ drop_index
    \/ drop_foreign_key
    \/ alter_type
    \/ drop_type
    \/ exec_stmt_resume
    \/ has_table
    \/ has_column
    \/ has_index
    \/ probe_resume
    \/ engine_identity
    \/ get_connection
    \/ HandleChangesEngine

Spec == Init /\ [][Next]_vars

----------------------------------------------------------------------------
\* Properties

Done == pc = "idle"

\* The handle has answered the request of the call.
Answered == Done /\ response.tag # "none"

\* A step from idle that is not the environment's is the start of a call.
CallStep == pc = "idle" /\ switches' = switches

\* The engine the handle reports was not compiled into this build.
EngineOff == FeatureOf(conn.backend) \notin features

C2_MutationResultIsExecuteResult ==
    (op \in MutationOps /\ Done) =>
        /\ result = Ok("()") <=> response.tag = "ExecResult"
        /\ response.tag = "Err" => result = Err(response.val)
        /\ result.tag \in {"Ok", "Err"}
        /\ result.tag = "Err" => result.val \in ConnErrs

C2_Witness ==
    /\ op \in MutationOps
    /\ Done
    /\ response = Failed("Conn: connection lost")
    /\ result = Err("Conn: connection lost")

\* C3: when the probe query of has_table, has_column or has_index succeeds but
\* returns no row, the operation returns the Custom error "Failed to check
\* table/column/index exists" of its kind, on every engine, and neither false
\* nor true.
C3_NoRowIsProbeConsistencyError ==
    (op \in InspectionOps /\ Done /\ response.tag = "NoRow") =>
        /\ op = "has_table" => result = Err("Custom: Failed to check table exists")
        /\ op = "has_column" => result = Err("Custom: Failed to check column exists")
        /\ op = "has_index" => result = Err("Custom: Failed to check index exists")

C3_Witness ==
    /\ op = "has_index"
    /\ conn.backend = "Postgres"
    /\ Done
    /\ response = NoRow
    /\ result = Err("Custom: Failed to check index exists")

\* The answer is one row whose column named after the probe kind holds a boolean.
GoodRow == response.tag = "Row" /\ response.col = op /\ response.val \in BoolCells

\* C4: an inspection primitive returns a boolean only when its query succeeded
\* with one row whose column named after the probe kind decoded to that boolean;
\* a failed query returns the connection's error unchanged, and no row, a missing
\* column or a cell that is not a boolean return an error, never a boolean.
C4_BooleanOnlyFromDecodedRow ==
    (op \in InspectionOps /\ Done) =>
        /\ result.tag = "Ok" => GoodRow /\ result.val = response.val
        /\ response.tag = "Err" => result = Err(response.val)
        /\ (Answered /\ ~GoodRow) => result.tag = "Err"
        /\ (Answered /\ GoodRow) => result = Ok(response.val)

C4_Witness ==
    /\ op = "has_column"
    /\ Done
    /\ response = Row("has_table", "true")
    /\ result.tag = "Err"

\* The call that starts in this step aborts before anything reaches the handle.
AbortsNext ==
    /\ result'.tag = "Panic"
    /\ request' = NoRequest
    /\ pc' = "idle"
    /\ nExec' = 0
    /\ nQuery' = 0

C6_HasTableTellsPresence ==
    (truthful /\ op = "has_table" /\ Answered) =>
        result = (IF arg.table \in tables THEN Ok("true") ELSE Ok("false"))

\* has_table("users") was false on the fresh schema and is true now.
C6_Witness ==
    /\ truthful
    /\ op = "has_table"
    /\ arg.table = "users"
    /\ Answered
    /\ Stmt("has_table", "users", "") \in seenFalse
    /\ result = Ok("true")

\* C7: against an engine that answers probes truthfully, an answered
\* has_column(T, C) has returned true exactly if column C is on table T, and an
\* answered has_index(T, I) true exactly if index I is on table T, after any
\* sequence of awaited alter_table, create_index and drop_index.
C7_HasColumnHasIndexTellPresence ==
    (truthful /\ Answered) =>
        /\ op = "has_column" =>
              result = (IF <<arg.table, arg.name>> \in columns
                        THEN Ok("true") ELSE Ok("false"))
        /\ op = "has_index" =>
              result = (IF <<arg.table, arg.name>> \in indexes
                        THEN Ok("true") ELSE Ok("false"))

\* has_column("users", "email") was false before the column was added and is
\* true now.
C7_Witness ==
    /\ truthful
    /\ op = "has_column"
    /\ arg = Stmt("has_column", "users", "email")
    /\ Answered
    /\ arg \in seenFalse
    /\ result = Ok("true")

\* C8: get_database_backend is a pure read: the call returns at once with the
\* engine the handle reports, submits no command and no query, leaves the handle
\* and the schema as they were, and returns what the previous call returned
\* unless the handle's engine changed in between.
C8_EngineIdentityIsPureRead ==
    [][(CallStep /\ op' = "get_database_backend") =>
          /\ pc' = "idle"
          /\ request' = NoRequest
          /\ nExec' = 0
          /\ nQuery' = 0
          /\ conn' = conn
          /\ schema' = schema
          /\ result' = Ok(conn.backend)
          /\ lastBackend # "none" => result' = Ok(lastBackend)]_vars

\* A second call, other operations in between, after the first returned Sqlite.
C8_Witness ==
    /\ op = "get_database_backend"
    /\ Done
    /\ switches = 1
    /\ result = Ok("Sqlite")
    /\ lastBackend = "Sqlite"
    /\ conn.backend = "Sqlite"

\* C9: while a call waits for the handle, the command it submitted was rendered
\* for the engine the handle reports during that call, and in an inspection call
\* the probe came from that same engine's builder: the manager has no engine of
\* its own to use instead, also after the handle's engine changed between calls.
C9_EngineReadFromHandleEachCall ==
    pc # "idle" =>
        /\ request.cmd.backend = conn.backend
        /\ request.kind = "query_one" =>
              /\ request.cmd.stmt.dialect = conn.backend
              /\ request.cmd.stmt.dialect = request.cmd.backend

C9_Witness ==
    /\ pc = "query_one"
    /\ switches = 1
    /\ conn.backend = "MySql"
    /\ request.cmd.backend = "MySql"
    /\ request.cmd.stmt.dialect = "MySql"

\* C10: no step closes the handle or begins or ends a transaction on it, only
\* the environment changes its engine, and the only requests it receives are the
\* one execute of a mutation call and the one query_one of an inspection call
\* that did not abort; an inspection call submits no execute.
C10_HandleOnlyExecutesAndQueries ==
    [][/\ conn'.open = conn.open
       /\ conn'.txn = conn.txn
       /\ conn'.backend # conn.backend => switches' = switches + 1
       /\ nExec' + nQuery' <= 1
       /\ request'.kind \in {"none", "execute", "query_one"}
       /\ request'.kind = "execute" => op' \in MutationOps /\ nExec' = 1
       /\ request'.kind = "query_one" => op' \in InspectionOps /\ nQuery' = 1
       /\ op' \in MutationOps => nExec' = 1 /\ nQuery' = 0
       /\ op' \in InspectionOps =>
             /\ nExec' = 0
             /\ nQuery' = (IF result'.tag = "Panic" THEN 0 ELSE 1)
       /\ op' \notin MutationOps \cup InspectionOps => nExec' = 0 /\ nQuery' = 0]_vars

C10_Witness ==
    /\ op \in InspectionOps
    /\ Done
    /\ result.tag = "Err"
    /\ response.tag = "Err"
    /\ nQuery = 1
    /\ nExec = 0
    /\ conn.open
    /\ conn.txn = "none"

====
